---------------------------- MODULE Spec2Model ----------------------------
(***************************************************************************)
(* Model of the tic-tac-toe match service (app/service.py) running on a   *)
(* PostgreSQL `games` table (app/database.py, app/database_models.py).    *)
(*                                                                         *)
(* Every HTTP request runs in its own SQLAlchemy session (main.get_db),   *)
(* so requests interleave at their SQL statements:                         *)
(*   create_game : INSERT + COMMIT                       (one step)        *)
(*   join_game   : SELECT (no lock) and the three checks (first step),     *)
(*                 UPDATE + COMMIT                        (second step)    *)
(*   make_move   : SELECT ... FOR UPDATE (first step: takes the row lock), *)
(*                 checks, mutation, COMMIT or raise      (second step:    *)
(*                 the transaction ends and the row lock is released)      *)
(* The arguments player_id, row, col of make_move are read only in its    *)
(* second step, so the model draws them there.                             *)
(***************************************************************************)
EXTENDS Integers, Sequences, FiniteSets, Bags, TLC

\* ------------------------------------------------------------- bounds
NumPlayers == 3        \* rows of the players table: ids 1..NumPlayers
MaxCreator == 1        \* players 1..MaxCreator create games
MaxGames == 1          \* rows the games table may hold while requests overlap
MaxInFlight == 2       \* requests (sessions) open at the same time
MaxCell == 5           \* highest board cell a client plays (row * 3 + col)
MaxTable == 2          \* rows the games table may hold in SpecTable

\* ---------------------------------------------------- program constants
BoardSize == 3         \* range(3), 0 <= row < 3
FullBoard == 9         \* move_count == 9
None == 0              \* NULL column / Python None (falsy, like 0)
Empty == 0             \* an empty board cell
LeaderLimit == 3       \* .limit(3)
MatchPlayers == 2      \* player1_id, player2_id: the players of a match

Players == 1..NumPlayers
Idx == 0..(BoardSize - 1)
Creators == 1..MaxCreator
\* coordinates a client may send: one below and one above the board included
Coords == (0 - 1)..BoardSize

VARIABLES
    games,      \* the games table: sequence of rows, row i has id i
    locks,      \* ids of the rows locked by an open make_move transaction
    inflight,   \* bag of the requests between their first and second step
    last,       \* the request that completed last: [op, res]
    hist,       \* history, per game: how many times its status became
                \* "finished", who made its last successful move, and how
                \* many successful moves it had
    race        \* the two make_move requests of SpecRace, issued together;
                \* in SpecWin, the call of _check_win and its result

vars == <<games, locks, inflight, last, hist, race>>

\* --------------------------------------------------------- the Game row
\* database_models.Game column defaults
NewBoard == [i \in Idx |-> [j \in Idx |-> Empty]]

\* a Game whose board is the list object of an earlier match
NewGame_shared_board(player_id) ==
    [ player1_id |-> player_id,
      player2_id |-> None,
      winner_id |-> None,
      current_turn_player_id |-> None,
      board |-> IF games = << >> THEN NewBoard ELSE games[Len(games)].board,
      status |-> "pending",
      move_count |-> 0 ]

NewGame(player_id) ==
    [ player1_id |-> player_id,
      player2_id |-> None,
      winner_id |-> None,
      current_turn_player_id |-> None,
      board |-> NewBoard,
      status |-> "pending",
      move_count |-> 0 ]

\* query(Game).filter(Game.id == game_id).first(): is there such a row
Exists(game_id) == game_id \in 1..Len(games)

\* ------------------------------------------------------------ _check_win
\* _check_win without the test of the diagonal board[i][2-i]
_check_win_no_anti_diagonal(board, player_id) ==
    \/ \E i \in Idx :
          \/ \A j \in Idx : board[i][j] = player_id
          \/ \A j \in Idx : board[j][i] = player_id
    \/ \A i \in Idx : board[i][i] = player_id

_check_win(board, player_id) ==
    \/ \E i \in Idx :
          \/ \A j \in Idx : board[i][j] = player_id
          \/ \A j \in Idx : board[j][i] = player_id
    \/ \A i \in Idx : board[i][i] = player_id
    \/ \A i \in Idx : board[i][(BoardSize - 1) - i] = player_id

\* board[row][col] is a cell of the board: 0 <= row < 3 and 0 <= col < 3
in_board(row, col) ==
    0 <= row /\ row < BoardSize /\ 0 <= col /\ col < BoardSize

\* the <<row, col>> a client sends: every pair outside the board, and the
\* board cells up to MaxCell
Sent ==
    {rc \in Coords \X Coords :
        in_board(rc[1], rc[2]) => rc[1] * BoardSize + rc[2] <= MaxCell}

\* ------------------------------------------------------------- join_game
\* join_game without its own-game check
join_error_no_own_check(db_game, player2_id) ==
    IF db_game.player2_id # None THEN "GameFull" ELSE "ok"

\* join_game without its full-game check
join_error_no_full_check(db_game, player2_id) ==
    IF db_game.player1_id = player2_id THEN "PlayerAlreadyInGame" ELSE "ok"

\* the checks of join_game on the row it loaded, in the code's order
join_error(db_game, player2_id) ==
    IF db_game.player2_id # None THEN "GameFull"
    ELSE IF db_game.player1_id = player2_id THEN "PlayerAlreadyInGame"
    ELSE "ok"

\* join_game without the assignment of current_turn_player_id
join_write_no_turn(row, db_game, player2_id) ==
    [row EXCEPT !.player2_id = player2_id,
                !.status = "in_progress"]

\* join_game giving the first turn to the joiner
join_write_joiner_first(row, db_game, player2_id) ==
    [row EXCEPT !.player2_id = player2_id,
                !.status = "in_progress",
                !.current_turn_player_id = player2_id]

\* the UPDATE join_game flushes: the three attributes it assigned, computed
\* from the row it loaded (db_game), written over the current row
join_write(row, db_game, player2_id) ==
    [row EXCEPT !.player2_id = player2_id,
                !.status = "in_progress",
                !.current_turn_player_id = db_game.player1_id]

\* ------------------------------------------------------------- make_move
\* make_move with the turn check moved after the two cell checks
move_error_turn_last(db_game, player_id, row, col) ==
    IF db_game.status # "in_progress" THEN "NotInProgress"
    ELSE IF ~in_board(row, col) THEN "InvalidCell"
    ELSE IF db_game.board[row][col] # Empty THEN "CellOccupied"
    ELSE IF db_game.current_turn_player_id # player_id THEN "NotYourTurn"
    ELSE "ok"

\* make_move without the occupied-cell check
move_error_no_occupied_check(db_game, player_id, row, col) ==
    IF db_game.status # "in_progress" THEN "NotInProgress"
    ELSE IF db_game.current_turn_player_id # player_id THEN "NotYourTurn"
    ELSE IF ~in_board(row, col) THEN "InvalidCell"
    ELSE "ok"

\* the checks of make_move on the row it loaded under the lock, in order
move_error(db_game, player_id, row, col) ==
    IF db_game.status # "in_progress" THEN "NotInProgress"
    ELSE IF db_game.current_turn_player_id # player_id THEN "NotYourTurn"
    ELSE IF ~in_board(row, col) THEN "InvalidCell"
    ELSE IF db_game.board[row][col] # Empty THEN "CellOccupied"
    ELSE "ok"

\* make_move testing the full board before the winning line
apply_move_draw_first(db_game, player_id, row, col) ==
    LET b == [db_game.board EXCEPT ![row][col] = player_id]
        n == db_game.move_count + 1
        won == _check_win(b, player_id)
        g1 == [db_game EXCEPT !.board = b, !.move_count = n]
        g2 == IF n = FullBoard
              THEN [g1 EXCEPT !.status = "finished"]
              ELSE IF won
                   THEN [g1 EXCEPT !.winner_id = player_id,
                                   !.status = "finished"]
                   ELSE g1
    IN [g2 EXCEPT !.current_turn_player_id =
            IF g2.current_turn_player_id = g2.player1_id
            THEN g2.player2_id ELSE g2.player1_id]

\* the mutation of make_move after its checks passed
apply_move(db_game, player_id, row, col) ==
    LET b == [db_game.board EXCEPT ![row][col] = player_id]
        n == db_game.move_count + 1
        won == _check_win(b, player_id)
        g1 == [db_game EXCEPT !.board = b, !.move_count = n]
        g2 == IF won
              THEN [g1 EXCEPT !.winner_id = player_id, !.status = "finished"]
              ELSE IF n = FullBoard
                   THEN [g1 EXCEPT !.status = "finished"]
                   ELSE g1
    IN [g2 EXCEPT !.current_turn_player_id =
            IF g2.current_turn_player_id = g2.player1_id
            THEN g2.player2_id ELSE g2.player1_id]

\* make_move counting the move before its cell checks
move_result_dirty(db_game, player_id, row, col) ==
    IF move_error(db_game, player_id, row, col) = "ok"
    THEN apply_move(db_game, player_id, row, col)
    ELSE IF move_error(db_game, player_id, row, col)
                \in {"InvalidCell", "CellOccupied"}
         THEN [db_game EXCEPT !.move_count = @ + 1]
         ELSE db_game

\* the row make_move leaves in the table: the mutated row when every check
\* passed; a raise leaves the transaction to be rolled back
move_result(db_game, player_id, row, col) ==
    IF move_error(db_game, player_id, row, col) = "ok"
    THEN apply_move(db_game, player_id, row, col)
    ELSE db_game

\* ---------------------------------------------------------- leaderboards
\* join(Game, Player.id == Game.winner_id): the games joined to player p
\* (a NULL winner_id joins no player)
won_games(table, p) == {g \in 1..Len(table) : table[g].winner_id = p}

\* group_by(Player.id): one group for each player with a joined game
winners(table) == {p \in Players : won_games(table, p) # {}}

\* func.count(Game.winner_id) of the group of p
win_count(table, p) == Cardinality(won_games(table, p))

RECURSIVE sum_moves(_, _)
sum_moves(table, gs) ==
    IF gs = {} THEN 0
    ELSE LET g == CHOOSE x \in gs : TRUE
         IN table[g].move_count + sum_moves(table, gs \ {g})

\* func.avg(Game.move_count) of the group of p, as the fraction sum / n
efficiency(table, p) ==
    [sum |-> sum_moves(table, won_games(table, p)),
     n |-> Cardinality(won_games(table, p))]

\* a / b <= c / d for fractions with positive denominators
frac_le(x, y) == x.sum * y.n <= y.sum * x.n

\* order_by(...).limit(3) over the groups ps: the sequences of players that
\* hold the first LeaderLimit groups in an order in which <<p, q>> is in
\* the relation before for every p listed ahead of q; groups with equal
\* keys come in any order
top_groups(ps, before) ==
    LET n == IF Cardinality(ps) < LeaderLimit
             THEN Cardinality(ps) ELSE LeaderLimit
    IN {s \in [1..n -> ps] :
          /\ \A i \in 1..n, j \in 1..n : i < j =>
                s[i] # s[j] /\ <<s[i], s[j]>> \in before
          /\ \A p \in ps \ {s[i] : i \in 1..n} :
                \A i \in 1..n : <<s[i], p>> \in before}

\* the results get_leaderboard_by_wins may return on table
get_leaderboard_by_wins(table) ==
    LET before == {pq \in Players \X Players :
                      win_count(table, pq[1]) >= win_count(table, pq[2])}
    IN {[i \in DOMAIN s |->
            [player_id |-> s[i], win_count |-> win_count(table, s[i])]] :
        s \in top_groups(winners(table), before)}

\* the results get_leaderboard_by_efficiency may return on table
get_leaderboard_by_efficiency(table) ==
    LET before == {pq \in Players \X Players :
                      frac_le(efficiency(table, pq[1]),
                              efficiency(table, pq[2]))}
    IN {[i \in DOMAIN s |->
            [player_id |-> s[i], efficiency |-> efficiency(table, s[i])]] :
        s \in top_groups(winners(table), before)}

\* ----------------------------------------------------------- bookkeeping
Req(op, game_id, player2_id, db_game) ==
    [op |-> op, game_id |-> game_id, player2_id |-> player2_id,
     db_game |-> db_game]

Requests == BagToSet(inflight)
Open(req) == BagIn(req, inflight)
Add(req) == inflight (+) SetToBag({req})
Remove(req) == inflight (-) SetToBag({req})
Quiet == inflight = EmptyBag
Moves == {req \in Requests : req.op = "move"}
Joins == {req \in Requests : req.op = "join"}
CanIssue == BagCardinality(inflight) < MaxInFlight

Done(op, res) == [op |-> op, res |-> res]

NoHist == [finishes |-> 0, mover |-> None, moves |-> 0]

\* the history of a game whose row changes from old to new; mover is the
\* player of a successful move, None for any other request
Note(h, old, new, mover) ==
    [finishes |-> h.finishes +
                  (IF old.status # "finished" /\ new.status = "finished"
                   THEN 1 ELSE 0),
     mover |-> IF mover # None THEN mover ELSE h.mover,
     moves |-> h.moves + (IF mover # None THEN 1 ELSE 0)]

NoRace == [phase |-> "setup"]

\* ------------------------------------------------------------------ Init
Init ==
    /\ games = << >>
    /\ locks = {}
    /\ inflight = EmptyBag
    /\ last = Done("none", "none")
    /\ hist = << >>
    /\ race = NoRace

\* --------------------------------------------------------------- actions
create_game(player_id) ==
    /\ CanIssue
    /\ games' = Append(games, NewGame(player_id))
    /\ hist' = Append(hist, NoHist)
    /\ last' = Done("create", "ok")
    /\ UNCHANGED <<locks, inflight>>

\* join_game up to its last check: the SELECT is not a locking read
join_game_load(game_id, player2_id) ==
    /\ CanIssue
    /\ IF ~Exists(game_id)
       THEN /\ last' = Done("join", "NotFound")
            /\ UNCHANGED inflight
       ELSE LET db_game == games[game_id]
                e == join_error(db_game, player2_id)
            IN IF e # "ok"
               THEN /\ last' = Done("join", e)
                    /\ UNCHANGED inflight
               ELSE /\ inflight' = Add(Req("join", game_id, player2_id, db_game))
                    /\ UNCHANGED last
    /\ UNCHANGED <<games, locks, hist>>

\* join_game from its assignments to the commit: the UPDATE waits for the
\* row lock of an open make_move transaction
join_game_commit(req) ==
    /\ Open(req) /\ req.op = "join"
    /\ req.game_id \notin locks
    /\ LET new == join_write(games[req.game_id], req.db_game, req.player2_id)
       IN /\ games' = [games EXCEPT ![req.game_id] = new]
          /\ hist' = [hist EXCEPT ![req.game_id] =
                         Note(@, games[req.game_id], new, None)]
    /\ inflight' = Remove(req)
    /\ last' = Done("join", "ok")
    /\ UNCHANGED locks

\* one lock for the whole table: the SELECT waits while any row is locked
may_lock_any_row_free(game_id) == locks = {}

\* a plain SELECT: it never waits
may_lock_plain_select(game_id) == TRUE

\* whether SELECT ... FOR UPDATE returns now: no other transaction holds
\* the row lock
may_lock(game_id) == game_id \notin locks

\* make_move up to the return of SELECT ... FOR UPDATE
make_move_load(game_id) ==
    /\ CanIssue
    /\ IF ~Exists(game_id)
       THEN /\ last' = Done("move", "NotFound")
            /\ UNCHANGED <<inflight, locks>>
       ELSE /\ may_lock(game_id)
            /\ locks' = locks \cup {game_id}
            /\ inflight' = Add(Req("move", game_id, None, games[game_id]))
            /\ UNCHANGED last
    /\ UNCHANGED <<games, hist>>

\* make_move from its checks to the end of its transaction (the commit, or
\* the raise and the close of the session): the row lock is released
make_move_finish(req, player_id, row, col) ==
    /\ Open(req) /\ req.op = "move"
    /\ LET e == move_error(req.db_game, player_id, row, col)
           new == move_result(req.db_game, player_id, row, col)
       IN /\ last' = Done("move", e)
          /\ games' = IF new # req.db_game
                      THEN [games EXCEPT ![req.game_id] = new]
                      ELSE games
          /\ hist' = [hist EXCEPT ![req.game_id] =
                         Note(@, games[req.game_id], games'[req.game_id],
                              IF e = "ok" THEN player_id ELSE None)]
    /\ locks' = locks \ {req.game_id}
    /\ inflight' = Remove(req)

\* an aborted make_move whose session is never closed: the transaction
\* stays open and keeps the row lock
make_move_abort_holding(req) ==
    /\ Open(req) /\ req.op = "move"
    /\ inflight' = Remove(req)
    /\ last' = Done("move", "aborted")
    /\ UNCHANGED <<games, locks, hist>>

\* a make_move that is aborted between SELECT ... FOR UPDATE and its
\* commit (the handler dies, the client goes away): get_db closes the
\* session, the transaction is rolled back and the row lock is released
make_move_abort(req) ==
    /\ Open(req) /\ req.op = "move"
    /\ locks' = locks \ {req.game_id}
    /\ inflight' = Remove(req)
    /\ last' = Done("move", "aborted")
    /\ UNCHANGED <<games, hist>>

\* a read that sees the uncommitted work of the transaction holding the
\* row lock
read_row_dirty(game_id) ==
    IF game_id \in locks
    THEN [games[game_id] EXCEPT !.move_count = @ + 1]
    ELSE games[game_id]

\* the row a plain SELECT returns: the committed row
read_row(game_id) == games[game_id]

\* the response of GET /games/{game_id}
Got(row) == [op |-> "get", res |-> "ok", row |-> row]

\* get_game: one SELECT without a lock; the endpoint answers 404 when
\* there is no row
get_game(game_id) ==
    /\ CanIssue
    /\ last' = IF Exists(game_id)
               THEN Got(read_row(game_id))
               ELSE Done("get", "NotFound")
    /\ UNCHANGED <<games, locks, inflight, hist>>

GameIds == 1..(Len(games) + 1)
Ids == 1..Len(games)

Next ==
    \/ /\ Len(games) < MaxGames
       /\ \E p \in Creators : create_game(p) /\ UNCHANGED race
    \/ \E g \in GameIds, p \in Players :
          join_game_load(g, p) /\ UNCHANGED race
    \/ \E req \in Requests : join_game_commit(req) /\ UNCHANGED race
    \/ \E g \in GameIds : make_move_load(g) /\ UNCHANGED race
    \/ \E req \in Requests, p \in Players, rc \in Sent :
          make_move_finish(req, p, rc[1], rc[2]) /\ UNCHANGED race

Spec == Init /\ [][Next]_vars

\* ----------------------------------------------------- reads among writes
\* SpecRead: the requests of Spec with get_game requests among them
NextRead ==
    \/ Next
    \/ \E g \in GameIds : get_game(g) /\ UNCHANGED race

SpecRead == Init /\ [][NextRead]_vars

\* ------------------------------------------------------ aborts, fairness
\* the make_move that holds the lock of match g finishes or is aborted
MoveEnds(g) ==
    \E req \in Requests :
        /\ req.game_id = g
        /\ \/ \E p \in Players, rc \in Sent :
                 make_move_finish(req, p, rc[1], rc[2])
           \/ make_move_abort(req)
        /\ UNCHANGED race

\* a join_game on match g commits
JoinCommits(g) ==
    \E req \in Requests :
        req.game_id = g /\ join_game_commit(req) /\ UNCHANGED race

NextLive ==
    \/ Next
    \/ \E req \in Requests : make_move_abort(req) /\ UNCHANGED race

\* SpecLive: the requests of Spec and aborted make_moves. A handler that
\* holds the row lock runs on to its commit or raise without waiting for
\* anything, or is aborted (weak fairness); an UPDATE of join_game that
\* waits for the row lock is queued by the database and gets the row
\* although later make_moves keep asking for it (strong fairness).
SpecLive ==
    /\ Init /\ [][NextLive]_vars
    /\ \A g \in 1..MaxGames : WF_vars(MoveEnds(g))
    /\ \A g \in 1..MaxGames : SF_vars(JoinCommits(g))

\* --------------------------------------------- two simultaneous make_moves
\* SpecRace: accepted requests run one at a time until two make_move
\* requests on the same in_progress match are issued together; then only
\* these two run, in every interleaving of their steps.
Args(player_id, row, col) ==
    [player_id |-> player_id, row |-> row, col |-> col]

\* row and col name an empty cell of the board
legal_cell(db_game, row, col) ==
    in_board(row, col) /\ db_game.board[row][col] = Empty

\* a: the player to move plays an empty cell; b: a request for a cell that
\* is not an empty cell of the board, or the same request again
race_issue(game_id, a, b) ==
    /\ race.phase = "setup" /\ Quiet
    /\ Exists(game_id)
    /\ games[game_id].status = "in_progress"
    /\ a.player_id = games[game_id].current_turn_player_id
    /\ legal_cell(games[game_id], a.row, a.col)
    /\ b = a \/ ~legal_cell(games[game_id], b.row, b.col)
    /\ race' = [phase |-> "racing", game_id |-> game_id,
                before |-> games[game_id].move_count,
                args |-> <<a, b>>,
                pc |-> <<"issued", "issued">>,
                res |-> <<"none", "none">>]
    /\ UNCHANGED <<games, locks, inflight, last, hist>>

race_load(i) ==
    /\ race.phase = "racing" /\ race.pc[i] = "issued"
    /\ make_move_load(race.game_id)
    /\ race' = [race EXCEPT !.pc[i] = "locked"]

race_finish(i) ==
    /\ race.phase = "racing" /\ race.pc[i] = "locked"
    /\ \E req \in Requests :
          make_move_finish(req, race.args[i].player_id,
                           race.args[i].row, race.args[i].col)
    /\ race' = [race EXCEPT
                  !.pc[i] = "done",
                  !.res[i] = last'.res,
                  !.phase = IF race.pc[3 - i] = "done"
                            THEN "done" ELSE "racing"]

\* a request of the setup: one the service accepts
Accepted == last'.res = "ok"

NextRace ==
    \/ /\ race.phase = "setup" /\ Quiet /\ UNCHANGED race
       /\ \/ Len(games) < MaxGames /\ \E p \in Creators : create_game(p)
          \/ \E g \in GameIds, p \in Players : join_game_load(g, p)
          \/ \E g \in GameIds : make_move_load(g)
       /\ Accepted
    \/ /\ race.phase = "setup" /\ UNCHANGED race
       /\ \/ \E req \in Requests : join_game_commit(req)
          \/ \E req \in Requests, p \in Players, rc \in Sent :
                make_move_finish(req, p, rc[1], rc[2])
       /\ Accepted
    \/ /\ race.phase = "setup"
       /\ \E g \in Ids, a \in Sent, pb \in Players, b \in Sent :
             race_issue(g, Args(games[g].current_turn_player_id, a[1], a[2]),
                        Args(pb, b[1], b[2]))
    \/ /\ race.phase = "racing"
       /\ \E i \in 1..2 : race_load(i)
    \/ /\ race.phase = "racing"
       /\ \E i \in 1..2 : race_finish(i)

SpecRace == Init /\ [][NextRace]_vars

\* ------------------------------------------------ several matches in turn
\* SpecTable: the table holds up to MaxTable matches; the requests the
\* service accepts run one at a time, on any of the matches.
NextTable ==
    \/ /\ Quiet /\ Len(games) < MaxTable
       /\ \E p \in Creators : create_game(p)
       /\ UNCHANGED race
    \/ /\ Quiet
       /\ \E g \in Ids, p \in Players : join_game_load(g, p) /\ ~Quiet'
       /\ UNCHANGED race
    \/ /\ \E req \in Requests : join_game_commit(req)
       /\ UNCHANGED race
    \/ /\ Quiet
       /\ \E g \in Ids : games[g].status = "in_progress" /\ make_move_load(g)
       /\ UNCHANGED race
    \/ /\ \E req \in Moves, p \in Players, rc \in Sent :
             /\ move_error(req.db_game, p, rc[1], rc[2]) = "ok"
             /\ make_move_finish(req, p, rc[1], rc[2])
       /\ UNCHANGED race

SpecTable == Init /\ [][NextTable]_vars

\* ------------------------------------------------- moves on two matches
\* SpecCross: as SpecTable, but a make_move may start while another
\* request is open, so that moves on different matches overlap.
NextCross ==
    \/ /\ Quiet /\ Len(games) < MaxTable
       /\ \E p \in Creators : create_game(p)
       /\ UNCHANGED race
    \/ /\ Quiet
       /\ \E g \in Ids, p \in Players : join_game_load(g, p) /\ ~Quiet'
       /\ UNCHANGED race
    \/ /\ \E req \in Requests : join_game_commit(req)
       /\ UNCHANGED race
    \/ /\ \E g \in Ids : games[g].status = "in_progress" /\ make_move_load(g)
       /\ UNCHANGED race
    \/ /\ \E req \in Moves, p \in Players, rc \in Sent :
             /\ move_error(req.db_game, p, rc[1], rc[2]) = "ok"
             /\ make_move_finish(req, p, rc[1], rc[2])
       /\ UNCHANGED race

SpecCross == Init /\ [][NextCross]_vars

\* ------------------------------------------------- one match, whole board
\* SpecPlay: one match is created, joined and played, on all nine cells, by
\* the requests the service accepts, one at a time.
NextPlay ==
    \/ /\ Quiet /\ games = << >>
       /\ \E p \in Creators : create_game(p)
       /\ UNCHANGED race
    \/ /\ Quiet
       /\ \E g \in Ids, p \in Players : join_game_load(g, p) /\ ~Quiet'
       /\ UNCHANGED race
    \/ /\ \E req \in Requests : join_game_commit(req)
       /\ UNCHANGED race
    \/ /\ Quiet
       /\ \E g \in Ids : games[g].status = "in_progress" /\ make_move_load(g)
       /\ UNCHANGED race
    \/ /\ \E req \in Moves, p \in Players, row \in Idx, col \in Idx :
             /\ move_error(req.db_game, p, row, col) = "ok"
             /\ make_move_finish(req, p, row, col)
       /\ UNCHANGED race

SpecPlay == Init /\ [][NextPlay]_vars

\* ------------------------------------------------------ _check_win alone
\* SpecWin: _check_win is called once, on any board whose cells are empty
\* or hold one of the two players of a match, for either player.
Marks == {Empty} \cup (1..MatchPlayers)
Boards == [Idx -> [Idx -> Marks]]

InitWin ==
    /\ games = << >>
    /\ locks = {}
    /\ inflight = EmptyBag
    /\ last = Done("none", "none")
    /\ hist = << >>
    /\ race \in {[phase |-> "call", board |-> b, player_id |-> p,
                  result |-> FALSE] : b \in Boards, p \in 1..MatchPlayers}

check_win_call ==
    /\ race.phase = "call"
    /\ race' = [race EXCEPT
                  !.phase = "returned",
                  !.result = _check_win(race.board, race.player_id)]
    /\ UNCHANGED <<games, locks, inflight, last, hist>>

NextWin == check_win_call

SpecWin == InitWin /\ [][NextWin]_vars

\* ======================================================================
\* Properties
\* ======================================================================
Errors == {"NotFound", "GameFull", "PlayerAlreadyInGame", "NotInProgress",
           "NotYourTurn", "InvalidCell", "CellOccupied"}

\* req completes in this step
Completes(req) == Open(req) /\ inflight' = Remove(req)

\* ---------------------------------------------------------------- C1
\* C1: of two make_move requests issued together on an in_progress match,
\* one by the player to move for an empty cell and the other for a cell
\* that is not an empty cell of the board (or the same request submitted
\* twice), exactly one succeeds and the other fails, and move_count ends
\* exactly one higher than before, in every interleaving.
C1_OneOfTwo ==
    race.phase = "done" =>
        /\ Cardinality({i \in 1..2 : race.res[i] = "ok"}) = 1
        /\ Cardinality({i \in 1..2 : race.res[i] \in Errors}) = 1
        /\ games[race.game_id].move_count = race.before + 1

\* a double submit in which the second request took the lock first, on a
\* match that already had a move
C1_Witness ==
    /\ race.phase = "done"
    /\ race.args[1] = race.args[2]
    /\ race.before >= 1
    /\ race.res = <<"NotYourTurn", "ok">>

\* ---------------------------------------------------------------- C2
\* C2: make_move on one match is linearizable. At any time at most one
\* make_move is between its locked load and its commit, and it holds the
\* row lock; the row it validates is the committed row (so it contains
\* every move committed before); and every step that completes a make_move
\* either leaves the table as it is or replaces the committed row by the
\* result of make_move applied to that committed row, so the final row is
\* the result of running the requests one after another.
C2_Linearizable ==
    /\ [](\A req \in Moves :
            /\ CopiesIn(req, inflight) = 1
            /\ req.game_id \in locks
            /\ req.db_game = games[req.game_id]
            /\ \A other \in Moves : other.game_id = req.game_id => other = req)
    /\ [][\A req \in Moves : Completes(req) =>
            \/ games' = games
            \/ \E p \in Players, r \in Idx, c \in Idx :
                  /\ move_error(games[req.game_id], p, r, c) = "ok"
                  /\ games' = [games EXCEPT ![req.game_id] =
                                  apply_move(games[req.game_id], p, r, c)]]_vars

\* a make_move holds the lock on a match with two committed moves while a
\* second request is open, and the request before it committed a move
C2_Witness ==
    \E req \in Moves :
        /\ req.db_game.move_count >= 2
        /\ BagCardinality(inflight) = 2
        /\ last = Done("move", "ok")

\* ---------------------------------------------------------------- C3
\* C3: a match becomes in_progress exactly once: a join succeeds only on a
\* match that has no player2 yet (so at most one join succeeds), and
\* player2_id, once set, is never replaced.
C3_JoinOnce ==
    [][/\ \A req \in Joins : Completes(req) =>
              games[req.game_id].player2_id = None
       /\ \A g \in Ids : games[g].player2_id # None =>
              games'[g].player2_id = games[g].player2_id]_vars

\* ---------------------------------------------------------------- C4
\* C4: once a match is finished no request changes any of its fields.
C4_FinishedImmutable ==
    [][\A g \in Ids : games[g].status = "finished" =>
            games'[g] = games[g]]_vars

\* ---------------------------------------------------------------- C5
\* C5: make_move on a finished match fails with "Game is not in progress."
\* for every player, row and column, and a match becomes finished at most
\* once.
C5_FinishedOnce ==
    /\ \A req \in Moves : req.db_game.status = "finished" =>
          \A p \in Players, r \in Coords, c \in Coords :
              move_error(req.db_game, p, r, c) = "NotInProgress"
    /\ \A g \in Ids : hist[g].finishes <= 1

\* ---------------------------------------------------------------- C6
\* the checks of make_move that (db_game, player_id, row, col) violates,
\* numbered in the order the claim gives
Violated(db_game, player_id, row, col) ==
    {i \in 1..4 :
        \/ i = 1 /\ db_game.status # "in_progress"
        \/ i = 2 /\ db_game.current_turn_player_id # player_id
        \/ i = 3 /\ ~in_board(row, col)
        \/ i = 4 /\ in_board(row, col) /\ db_game.board[row][col] # Empty}

CheckName == <<"NotInProgress", "NotYourTurn", "InvalidCell", "CellOccupied">>

\* C6: make_move reports the earliest violated check, in the order
\* NotFound, NotInProgress, NotYourTurn, InvalidCell, CellOccupied: on
\* every row a make_move has loaded and for all arguments, the error is
\* that of the lowest-numbered violated check, and it is "ok" exactly when
\* none is violated; a make_move whose match does not exist reports
\* NotFound whatever else is wrong, before it loads or locks anything.
C6_ValidationOrder ==
    /\ [](\A req \in Moves, p \in Players, r \in Coords, c \in Coords :
            LET v == Violated(req.db_game, p, r, c)
                e == move_error(req.db_game, p, r, c)
            IN IF v = {} THEN e = "ok"
               ELSE \E i \in v : /\ \A j \in v : i <= j
                                 /\ e = CheckName[i])
    /\ [][\A req \in Moves : Completes(req) =>
            /\ last'.op = "move" /\ last'.res # "NotFound"
            /\ (req.db_game.status # "in_progress"
                    => last'.res = "NotInProgress")]_vars
    /\ [][\A g \in GameIds : (~Exists(g) /\ make_move_load(g)) =>
            last' = Done("move", "NotFound") /\ inflight' = inflight]_vars

\* a make_move is open on an in_progress match with an occupied cell, so
\* that a wrong player, a bad cell and an occupied cell can coincide, and
\* the request before it failed the turn check
C6_Witness ==
    \E req \in Moves :
        /\ req.db_game.status = "in_progress"
        /\ req.db_game.move_count >= 1
        /\ last = Done("move", "NotYourTurn")

\* ---------------------------------------------------------------- C7
\* C7: a join_game or make_move that fails leaves the table as it was: a
\* step that completes an open request with an error, and a step in which
\* a request fails at its load, change no row.
C7_FailureChangesNothing ==
    [][/\ \A req \in Requests : Completes(req) /\ last'.res \in Errors
              => games' = games
       /\ (inflight' = inflight /\ last' # last /\ last'.res \in Errors)
              => games' = games]_vars

\* a make_move failed on an occupied cell of a match with moves on it
C7_Witness ==
    /\ last = Done("move", "CellOccupied")
    /\ \E g \in Ids : games[g].move_count >= 1

\* ---------------------------------------------------------------- C8
\* C8: after a successful non-terminal move the turn is with the other
\* participant, not the mover, and no player makes two successful moves in
\* a row on a match.
C8_TurnAlternation ==
    [][\A g \in Ids :
          games'[g].move_count # games[g].move_count =>
            /\ games'[g].status = "in_progress" =>
                  /\ games'[g].current_turn_player_id # hist'[g].mover
                  /\ games'[g].current_turn_player_id
                        \in {games'[g].player1_id, games'[g].player2_id}
            /\ hist'[g].mover # hist[g].mover]_vars

\* ---------------------------------------------------------------- C9
\* C9 as claimed: a join by the match's player1 fails with
\* PlayerAlreadyInGame whatever the status, and changes nothing.
C9_SelfJoinAlwaysAlreadyInGame ==
    [][\A g \in Ids :
          join_game_load(g, games[g].player1_id) =>
            /\ last' = Done("join", "PlayerAlreadyInGame")
            /\ games' = games /\ inflight' = inflight]_vars

\* C9 as amended: a join by the match's player1 never succeeds and never
\* changes the match; it fails with PlayerAlreadyInGame while player2_id
\* is absent (the match is pending) and with GameFull once player2_id is
\* set.
C9_SelfJoinFails ==
    [][\A g \in Ids :
          join_game_load(g, games[g].player1_id) =>
            /\ last' = Done("join", IF games[g].player2_id = None
                                    THEN "PlayerAlreadyInGame"
                                    ELSE "GameFull")
            /\ games' = games /\ inflight' = inflight]_vars

\* a self-join was refused on a pending match
C9_Witness ==
    /\ last = Done("join", "PlayerAlreadyInGame")
    /\ \E g \in Ids : games[g].status = "pending"

\* ---------------------------------------------------------------- C10
\* C10: a join on a match whose player2_id is set, by any player other
\* than player1, fails with GameFull whatever the status and changes no
\* row; a join on an id with no row fails with NotFound.
C10_FullOrMissing ==
    [][\A g \in GameIds, p \in Players :
          join_game_load(g, p) =>
            /\ ~Exists(g) =>
                  last' = Done("join", "NotFound") /\ games' = games
            /\ (Exists(g) /\ games[g].player2_id # None
                          /\ p # games[g].player1_id) =>
                  /\ last' = Done("join", "GameFull")
                  /\ games' = games /\ inflight' = inflight]_vars

\* a join was refused as full on a finished match
C10_Witness ==
    /\ last = Done("join", "GameFull")
    /\ \E g \in Ids : games[g].status = "finished"

\* ---------------------------------------------------------------- C11
\* C11: a join_game that succeeds on a pending match is by a player other
\* than player1; it sets player2_id to the joiner, status to in_progress
\* and current_turn_player_id to player1_id, and leaves player1_id, board,
\* move_count, winner_id and every other match unchanged.
C11_JoinEffects ==
    [][\A req \in Joins :
          (Completes(req) /\ games[req.game_id].status = "pending") =>
            LET old == games[req.game_id]
                new == games'[req.game_id]
            IN /\ last' = Done("join", "ok")
               /\ req.player2_id # old.player1_id
               /\ new.player2_id = req.player2_id
               /\ new.status = "in_progress"
               /\ new.current_turn_player_id = old.player1_id
               /\ new.player1_id = old.player1_id
               /\ new.board = old.board
               /\ new.move_count = old.move_count
               /\ new.winner_id = old.winner_id
               /\ \A g \in Ids \ {req.game_id} : games'[g] = games[g]]_vars

\* a join has just succeeded on a match that has had no move and no
\* other join open
C11_Witness ==
    /\ last = Done("join", "ok") /\ Quiet
    /\ \E g \in Ids : /\ games[g].status = "in_progress"
                       /\ games[g].player2_id # None
                       /\ hist[g].moves = 0

\* ---------------------------------------------------------------- C12
\* C12: create_game appends a match with status pending, nine empty
\* cells, move_count 0 and player2_id, winner_id, current_turn_player_id
\* absent, whatever the earlier matches hold, and leaves the earlier
\* matches as they are; no step changes two matches, and a pending match
\* keeps its empty board while other matches are played.
C12_CreateFresh ==
    /\ [][Len(games') # Len(games) =>
            /\ Len(games') = Len(games) + 1
            /\ last' = Done("create", "ok")
            /\ LET new == games'[Len(games')]
               IN /\ new.status = "pending"
                  /\ \A i \in Idx, j \in Idx : new.board[i][j] = Empty
                  /\ new.move_count = 0
                  /\ new.player2_id = None
                  /\ new.winner_id = None
                  /\ new.current_turn_player_id = None
                  /\ new.player1_id \in Creators
            /\ \A g \in Ids : games'[g] = games[g]]_vars
    /\ [][\A g \in Ids, h \in Ids :
            (g # h /\ Len(games') = Len(games) /\ games'[g] # games[g])
                => games'[h] = games[h]]_vars
    /\ [](\A g \in Ids : games[g].status = "pending" =>
            \A i \in Idx, j \in Idx : games[g].board[i][j] = Empty)

\* a match has just been created while an earlier match has moves on its
\* board
C12_Witness ==
    /\ last = Done("create", "ok")
    /\ Len(games) >= 2
    /\ games[Len(games)] = NewGame(games[Len(games)].player1_id)
    /\ \E g \in Ids : games[g].move_count >= 2

\* ---------------------------------------------------------------- C13
\* the eight lines of the board, as sets of <<row, col>>
Lines ==
    { {<<0, 0>>, <<0, 1>>, <<0, 2>>}, {<<1, 0>>, <<1, 1>>, <<1, 2>>},
      {<<2, 0>>, <<2, 1>>, <<2, 2>>}, {<<0, 0>>, <<1, 0>>, <<2, 0>>},
      {<<0, 1>>, <<1, 1>>, <<2, 1>>}, {<<0, 2>>, <<1, 2>>, <<2, 2>>},
      {<<0, 0>>, <<1, 1>>, <<2, 2>>}, {<<0, 2>>, <<1, 1>>, <<2, 0>>} }

\* player p holds every cell of some line of board
HasLine(board, p) ==
    \E line \in Lines : \A rc \in line : board[rc[1]][rc[2]] = p

FinishedWins(p) ==
    {g \in Ids : games[g].status = "finished" /\ games[g].winner_id = p}

\* C14: every result of get_leaderboard_by_wins has at most 3 entries,
\* ordered by win count descending; the win count of an entry is the
\* number of finished matches whose winner_id is that player and is at
\* least 1, so that drawn and unfinished matches count for nobody.
C14_WinsLeaderboard ==
    \A s \in get_leaderboard_by_wins(games) :
        /\ Len(s) <= LeaderLimit
        /\ \A i \in DOMAIN s, j \in DOMAIN s :
              i < j => s[i].win_count >= s[j].win_count
        /\ \A i \in DOMAIN s :
              /\ s[i].win_count = Cardinality(FinishedWins(s[i].player_id))
              /\ s[i].win_count >= 1

\* ---------------------------------------------------------------- C15
\* C15: every result of get_leaderboard_by_efficiency has at most 3
\* entries, ordered ascending by efficiency; the efficiency of an entry is
\* the average move_count of the finished matches that player won, of
\* which there is at least one.
C15_EfficiencyLeaderboard ==
    \A s \in get_leaderboard_by_efficiency(games) :
        /\ Len(s) <= LeaderLimit
        /\ \A i \in DOMAIN s, j \in DOMAIN s :
              i < j => frac_le(s[i].efficiency, s[j].efficiency)
        /\ \A i \in DOMAIN s :
              /\ FinishedWins(s[i].player_id) # {}
              /\ s[i].efficiency =
                    [sum |-> sum_moves(games, FinishedWins(s[i].player_id)),
                     n |-> Cardinality(FinishedWins(s[i].player_id))]

\* ---------------------------------------------------------------- C16
\* C16: the status of a match changes only from pending to in_progress
\* and from in_progress to finished.
C16_StatusOrder ==
    [][\A g \in Ids : games'[g].status # games[g].status =>
          <<games[g].status, games'[g].status>> \in
              {<<"pending", "in_progress">>, <<"in_progress", "finished">>}]_vars

\* ---------------------------------------------------------------- C17
\* the cells of board that are not empty
Marked(board) == {rc \in Idx \X Idx : board[rc[1]][rc[2]] # Empty}

\* C17: move_count of a match equals the number of non-empty cells of its
\* board and the number of successful make_move calls on it so far, lies
\* in 0..9, and no step decreases it.
C17_MoveCount ==
    /\ [](\A g \in Ids :
            /\ games[g].move_count = Cardinality(Marked(games[g].board))
            /\ games[g].move_count = hist[g].moves
            /\ games[g].move_count \in 0..FullBoard)
    /\ [][\A g \in Ids : games'[g].move_count >= games[g].move_count]_vars

\* a join has committed on a match after moves were made on it, and
\* another request is open
C17_Witness ==
    /\ last = Done("join", "ok") /\ ~Quiet
    /\ \E g \in Ids : hist[g].moves >= 3

\* ---------------------------------------------------------------- C18
\* C18: a match is finished exactly when some player holds a line and is
\* its winner_id, or its move_count is 9 with no line and no winner_id.
C18_FinishedIff ==
    \A g \in Ids :
        games[g].status = "finished" <=>
            \/ \E p \in Players : /\ HasLine(games[g].board, p)
                                   /\ games[g].winner_id = p
            \/ /\ games[g].move_count = FullBoard
               /\ \A p \in Players : ~HasLine(games[g].board, p)
               /\ games[g].winner_id = None

\* ---------------------------------------------------------------- C19
\* C19: a match is pending exactly when player2_id is absent and exactly
\* when current_turn_player_id is absent; in an in_progress match both
\* players are assigned and current_turn_player_id is one of them.
C19_PendingIff ==
    \A g \in Ids :
        /\ games[g].status = "pending" <=> games[g].player2_id = None
        /\ games[g].status = "pending" <=>
              games[g].current_turn_player_id = None
        /\ games[g].status = "in_progress" =>
              /\ games[g].player1_id \in Players
              /\ games[g].player2_id \in Players
              /\ games[g].current_turn_player_id \in
                    {games[g].player1_id, games[g].player2_id}

\* a second join has committed on a match that was already being played,
\* and the match is in_progress
C19_Witness ==
    /\ last = Done("join", "ok") /\ Quiet
    /\ \E g \in Ids : /\ games[g].status = "in_progress"
                       /\ games[g].move_count >= 1

\* ---------------------------------------------------------------- C20
\* C20: a cell that holds a player id keeps it in every later step, on
\* every match.
C20_CellsKept ==
    [][\A g \in Ids, i \in Idx, j \in Idx :
          games[g].board[i][j] # Empty =>
              games'[g].board[i][j] = games[g].board[i][j]]_vars

\* four moves stand on a board and a request for an occupied cell has
\* just been refused
C20_Witness ==
    /\ last = Done("move", "CellOccupied")
    /\ \E g \in Ids : games[g].move_count >= 4

\* ---------------------------------------------------------------- C21
\* C21: on every match, player1_id and player2_id differ whenever
\* player2_id is set, also after joins that overlapped.
C21_DistinctPlayers ==
    \A g \in Ids :
        games[g].player2_id # None =>
            games[g].player1_id # games[g].player2_id

\* two joins by different players overlapped and both have committed: the
\* second replaced the player2_id of a match that had a move by then
C21_Witness ==
    /\ last = Done("join", "ok") /\ Quiet
    /\ \E g \in Ids : /\ games[g].player2_id # None
                       /\ hist[g].mover \notin
                             {None, games[g].player1_id, games[g].player2_id}

\* ---------------------------------------------------------------- C22
\* C22: the match get_game returns is the committed row: while a
\* make_move holds the lock of the match it is the state before that
\* move, and its cells, move_count and winner_id agree with each other
\* (move_count is the number of marked cells and of successful moves,
\* and a winner_id holds a line); a read of a missing id answers
\* NotFound.
C22_ReadsAtomic ==
    [][\A g \in GameIds : get_game(g) =>
          IF Exists(g)
          THEN /\ last'.op = "get" /\ last'.res = "ok"
               /\ last'.row = games[g]
               /\ \A req \in Moves : req.game_id = g =>
                                          last'.row = req.db_game
               /\ last'.row.move_count = Cardinality(Marked(last'.row.board))
               /\ last'.row.move_count = hist[g].moves
               /\ last'.row.winner_id # None =>
                     HasLine(last'.row.board, last'.row.winner_id)
          ELSE last' = Done("get", "NotFound")]_vars

\* a get_game has returned a match with moves on it while a make_move
\* held its lock
C22_Witness ==
    /\ last.op = "get" /\ last.res = "ok"
    /\ last.row.move_count >= 2
    /\ \E req \in Moves : /\ req.game_id \in locks
                           /\ last.row = games[req.game_id]

\* ---------------------------------------------------------------- C23
\* C23: a join_game or make_move that completes on one match changes no
\* field of any other match; make_move locks only the row of its own
\* match, and a make_move on a match whose row is not locked can take its
\* lock whatever locks are held on other matches.
C23_Independent ==
    /\ [][\A req \in Requests : Completes(req) =>
            \A h \in Ids \ {req.game_id} : games'[h] = games[h]]_vars
    /\ [][\A g \in Ids : make_move_load(g) => locks' = locks \cup {g}]_vars
    /\ [](\A g \in Ids :
            (CanIssue /\ g \notin locks) => ENABLED make_move_load(g))

\* make_move requests hold the locks of two matches at once, after a
\* move was committed
C23_Witness ==
    /\ Cardinality(locks) >= 2
    /\ last = Done("move", "ok")
    /\ \A g \in locks : games[g].move_count >= 1

\* ---------------------------------------------------------------- C24
\* C24: a held row lock is always released: a lock always belongs to an
\* open make_move, which commits, fails or is aborted; an aborted
\* make_move leaves the table as it was and frees the lock; and a
\* join_game that waits for the lock commits in the end.
C24_LockReleased ==
    /\ \A g \in 1..MaxGames : (g \in locks) ~> (g \notin locks)
    /\ \A g \in 1..MaxGames :
          (\E req \in Joins : req.game_id = g)
              ~> (\A req \in Joins : req.game_id # g)
    /\ [](\A g \in locks : \E req \in Moves : req.game_id = g)
    /\ [][\A req \in Moves : make_move_abort(req) =>
            games' = games /\ req.game_id \notin locks']_vars

\* a make_move was aborted while it held the lock of a match with moves
\* on it and a join_game was waiting; the lock is free again
C24_Witness ==
    /\ last = Done("move", "aborted")
    /\ locks = {}
    /\ \E req \in Joins : games[req.game_id].move_count >= 1

\* ---------------------------------------------------------------- C25
\* the board turned by a quarter, and the board mirrored left to right
Rotate(board) ==
    [i \in Idx |-> [j \in Idx |-> board[(BoardSize - 1) - j][i]]]
Reflect(board) ==
    [i \in Idx |-> [j \in Idx |-> board[i][(BoardSize - 1) - j]]]

\* C25: _check_win(board, player_id) is true exactly when player_id
\* holds all three cells of one of the 8 lines, on every board over
\* {empty, player1, player2}; and it gives the same result on the board
\* turned by a quarter and on the board mirrored (which generate all
\* rotations and reflections).
C25_CheckWin ==
    race.phase = "returned" =>
        /\ race.result = HasLine(race.board, race.player_id)
        /\ race.result = _check_win(Rotate(race.board), race.player_id)
        /\ race.result = _check_win(Reflect(race.board), race.player_id)

\* _check_win returned true on a board where the player holds the
\* diagonal from the top right to the bottom left and no other line
C25_Witness ==
    /\ race.phase = "returned" /\ race.result
    /\ \A i \in Idx :
          race.board[i][(BoardSize - 1) - i] = race.player_id
    /\ Cardinality(Marked(race.board)) = FullBoard
    /\ Cardinality({line \in Lines : \A rc \in line :
          race.board[rc[1]][rc[2]] = race.player_id}) = 1

\* ---------------------------------------------------------------- C26
\* C26: a successful make_move gives the turn to the other player when
\* the match goes on; a move that finishes the match, by a win or by
\* filling the board, leaves current_turn_player_id as it was.
C26_TurnKeptAtEnd ==
    [][\A g \in Ids :
          games'[g].move_count = games[g].move_count + 1 =>
              IF games'[g].status = "finished"
              THEN games'[g].current_turn_player_id =
                       games[g].current_turn_player_id
              ELSE /\ games'[g].current_turn_player_id #
                          games[g].current_turn_player_id
                   /\ games'[g].current_turn_player_id \in
                          {games[g].player1_id, games[g].player2_id}]_vars

\* ---------------------------------------------------------------- C27
\* C27: every non-empty cell of a match holds the id of its player1_id
\* or of its player2_id, and a make_move succeeds only for one of the two
\* players of the match.
C27_MarksOfPlayers ==
    /\ [](\A g \in Ids : \A rc \in Marked(games[g].board) :
            games[g].board[rc[1]][rc[2]] \in
                {games[g].player1_id, games[g].player2_id})
    /\ [][\A g \in Ids :
            games'[g].move_count # games[g].move_count =>
                hist'[g].mover \in
                    {games[g].player1_id, games[g].player2_id}]_vars

\* ---------------------------------------------------------------- C28
\* the number of cells of board that hold p
Owned(board, p) ==
    Cardinality({rc \in Idx \X Idx : board[rc[1]][rc[2]] = p})

\* C28: on every match the cells of player1 are as many as the cells of
\* player2 or one more; a match won by player1 has 5, 7 or 9 moves and a
\* match won by player2 has 6 or 8.
C28_Balance ==
    \A g \in Ids :
        LET row == games[g]
        IN /\ Owned(row.board, row.player1_id)
                - (IF row.player2_id = None THEN 0
                   ELSE Owned(row.board, row.player2_id)) \in {0, 1}
           /\ (row.winner_id # None /\ row.winner_id = row.player1_id)
                  => row.move_count \in {5, 7, 9}
           /\ (row.winner_id # None /\ row.winner_id = row.player2_id)
                  => row.move_count \in {6, 8}

=============================================================================
